---- MODULE Spec2Model ----
(***************************************************************************)
(* Model of pkg/gateway/proxy/dispatcher/upgradeaware.go: the              *)
(* UpgradeAwareHandler (ServeHTTP, ErrorHandler, defaultProxyTransport)    *)
(* and the corsRemovingTransport.                                          *)
(*                                                                         *)
(* Strings the code inspects (URL paths, query strings) are sequences of   *)
(* one-character strings, so that HasSuffix / TrimSuffix / concatenation   *)
(* are computed as the code computes them.  An error value is the chain    *)
(* of its layers, outermost first, as errors.Unwrap walks it; the nil      *)
(* error is the empty chain.  Header maps live in a heap of maps and value *)
(* slices, so that sharing a map or a slice between two requests is        *)
(* visible.                                                                *)
(***************************************************************************)
EXTENDS Naturals, Sequences, FiniteSets

(* ------------------------------ bounds -------------------------------- *)

\* longest error chain (wrapper layers plus the leaf) handed to the code
MaxChain == 2

\* how many times a handler's transport may be wrapped before the model stops
\* serving requests that would wrap it again
MaxWraps == 2

(* ------------------------------ strings ------------------------------- *)

\* strings.HasSuffix
HasSuffix(s, suf) ==
    /\ Len(suf) <= Len(s)
    /\ SubSeq(s, Len(s) - Len(suf) + 1, Len(s)) = suf

\* strings.TrimSuffix
TrimSuffix(s, suf) ==
    IF HasSuffix(s, suf) THEN SubSeq(s, 1, Len(s) - Len(suf)) ELSE s

Slash == <<"/">>

\* base paths a handler is constructed with (h.Location.Path)
BasePaths == { <<>>, <<"/">>, <<"/", "a">> }

\* inbound request paths (req.URL.Path)
ReqPaths == { <<"/">>, <<"/", "a">>, <<"/", "a", "/">>, <<"/", "p", "/", "a">> }

\* inbound raw query strings (req.URL.RawQuery)
Queries == { <<>>, <<"q">> }

(* ------------------------------ errors -------------------------------- *)

\* error values without an Unwrap method
Leaves == { "ErrAbortHandler", "Canceled", "ECONNREFUSED", "ClientDisconnected",
            "GOAWAY", "GOAWAYClientDisconnected", "Other" }

\* error values that wrap another error: AbortWrap matches http.ErrAbortHandler
\* and unwraps to its root cause, OpError is *net.OpError
Wrappers == { "AbortWrap", "OpError" }

ChainsOfLen(n) ==
    { c \in [1..n -> Leaves \cup Wrappers] :
        /\ c[n] \in Leaves
        /\ \A i \in 1..(n-1) : c[i] \in Wrappers }

\* the non-nil error values of the model
Errors == UNION { ChainsOfLen(n) : n \in 1..MaxChain }

NilErr == <<>>

\* errors.Unwrap: the wrapped error, nil for a leaf
Unwrap(err) == IF Len(err) <= 1 THEN NilErr ELSE Tail(err)

\* does one layer match the target of errors.Is
LayerIs(layer, target) ==
    \/ layer = target
    \/ layer = "AbortWrap" /\ target = "ErrAbortHandler"

\* errors.Is: walks the Unwrap chain; false on the nil error
ErrorsIs(err, target) == \E i \in 1..Len(err) : LayerIs(err[i], target)

ClientDisconnectedText == "client disconnected"
GoAwayText == "http2: server sent GOAWAY and closed the connection"

\* the texts of interest a layer's own message carries; a GOAWAY error prints
\* the debug data the backend sent, which may read "client disconnected"
LayerText(layer) ==
    CASE layer = "ClientDisconnected" -> { ClientDisconnectedText }
      [] layer = "GOAWAY" -> { GoAwayText }
      [] layer = "GOAWAYClientDisconnected" -> { GoAwayText, ClientDisconnectedText }
      [] OTHER -> {}

\* strings.Contains(err.Error(), s) for a non-nil err: a wrapper's message
\* includes the message of what it wraps
ErrorContains(err, s) == \E i \in 1..Len(err) : s \in LayerText(err[i])

\* utilnet.IsConnectionRefused: looks through one *net.OpError and then asks
\* whether what is left is the errno ECONNREFUSED itself
IsConnectionRefused(err) ==
    LET inner == IF Len(err) > 0 /\ err[1] = "OpError" THEN Tail(err) ELSE err
    IN  inner = <<"ECONNREFUSED">>

(* --------------------------- response sink ---------------------------- *)

\* http.ResponseWriter as the code uses it: the status code written (0: none
\* yet) and the two response headers the code sets ("" / <<>>: not set)
FreshWriter == [Code |-> 0, Location |-> <<>>, Connection |-> ""]

\* http.StatusMovedPermanently
StatusMovedPermanently == 301

(* -------------------------- Error Classifier -------------------------- *)

\* AbortCase without the "client disconnected" test of its first case
AbortCase_CanceledOnly(cause) ==
    IF cause = NilErr THEN "panic"
    ELSE IF ErrorsIs(cause, "Canceled") THEN "ignore"
    ELSE IF ErrorContains(cause, GoAwayText) THEN "goaway"
    ELSE "default"

\* AbortCase without its GOAWAY case
AbortCase_NoGoAway(cause) ==
    IF cause = NilErr THEN "panic"
    ELSE IF ErrorsIs(cause, "Canceled") \/ ErrorContains(cause, ClientDisconnectedText)
         THEN "ignore"
    ELSE "default"

\* the switch of ErrorHandler on the unwrapped error: which case runs.
\* On the nil error errors.Is is false and err.Error() dereferences nil.
AbortCase(cause) ==
    IF cause = NilErr THEN "panic"
    ELSE IF ErrorsIs(cause, "Canceled") \/ ErrorContains(cause, ClientDisconnectedText)
         THEN "ignore"
    ELSE IF ErrorContains(cause, GoAwayText) THEN "goaway"
    ELSE "default"

\* HealthChecks with the health check triggered on every error
HealthChecks_Always(err) == 1

\* ErrorHandler, lines 126-129: the number of h.endpoint.TriggerHealthCheck() calls
HealthChecks(err) == IF IsConnectionRefused(err) THEN 1 ELSE 0

\* ErrorHandler without the reassignment of err at line 132: the abort
\* wrapper itself is what the responder gets
ErrorHandler_ForwardsWrapper(w, err) ==
    LET health == HealthChecks(err)
        case   == AbortCase(Unwrap(err))
    IN  IF ErrorsIs(err, "ErrAbortHandler")
        THEN CASE case = "panic" ->
                    [w |-> w, responder |-> <<>>, health |-> health, panicked |-> TRUE]
               [] case = "ignore" ->
                    [w |-> w, responder |-> <<>>, health |-> health, panicked |-> FALSE]
               [] case = "goaway" ->
                    [w |-> [w EXCEPT !.Connection = "close"],
                     responder |-> <<err>>, health |-> health, panicked |-> FALSE]
               [] OTHER ->
                    [w |-> w, responder |-> <<err>>, health |-> health, panicked |-> FALSE]
        ELSE [w |-> w, responder |-> <<err>>, health |-> health, panicked |-> FALSE]

\* UpgradeAwareHandler.ErrorHandler: what one call does to the response sink,
\* the errors it hands to h.Responder.Error in order, the number of
\* h.endpoint.TriggerHealthCheck() calls, and whether it panicked
ErrorHandler(w, err) ==
    LET health == HealthChecks(err)
        cause  == Unwrap(err)
        case   == AbortCase(cause)
    IN  IF ErrorsIs(err, "ErrAbortHandler")
        THEN CASE case = "panic" ->
                    [w |-> w, responder |-> <<>>, health |-> health, panicked |-> TRUE]
               [] case = "ignore" ->
                    [w |-> w, responder |-> <<>>, health |-> health, panicked |-> FALSE]
               [] case = "goaway" ->
                    [w |-> [w EXCEPT !.Connection = "close"],
                     responder |-> <<cause>>, health |-> health, panicked |-> FALSE]
               [] OTHER ->
                    [w |-> w, responder |-> <<cause>>, health |-> health, panicked |-> FALSE]
        ELSE [w |-> w, responder |-> <<err>>, health |-> health, panicked |-> FALSE]

(* ----------------------- CORS-stripping transport --------------------- *)

CORSHeaders == { "Access-Control-Allow-Credentials", "Access-Control-Allow-Headers",
                 "Access-Control-Allow-Methods", "Access-Control-Allow-Origin" }

\* response header names of the model: the four CORS names and one other
RespHeaderNames == CORSHeaders \cup { "Content-Type" }

\* a response header map: name -> value, "" when the name is absent
RespHeaders == [RespHeaderNames -> { "", "v" }]

NoHeaders == [n \in RespHeaderNames |-> ""]

\* http.Header.Del
HeaderDel(hdr, name) == [hdr EXCEPT ![name] = ""]

\* removeCORSHeaders without the deletion of Access-Control-Allow-Origin
removeCORSHeaders_ThreeOnly(hdr) ==
    HeaderDel(HeaderDel(HeaderDel(hdr,
        "Access-Control-Allow-Credentials"),
        "Access-Control-Allow-Headers"),
        "Access-Control-Allow-Methods")

\* removeCORSHeaders
removeCORSHeaders(hdr) ==
    HeaderDel(HeaderDel(HeaderDel(HeaderDel(hdr,
        "Access-Control-Allow-Credentials"),
        "Access-Control-Allow-Headers"),
        "Access-Control-Allow-Methods"),
        "Access-Control-Allow-Origin")

\* what a round tripper returns: (resp, err); hasResp is resp != nil
InnerResults ==
    { [hasResp |-> TRUE, Header |-> hd, err |-> NilErr] : hd \in RespHeaders }
    \cup { [hasResp |-> FALSE, Header |-> NoHeaders, err |-> e] : e \in Errors }

\* corsRemovingTransport.RoundTrip on the result of the wrapped round tripper
CorsRoundTrip(inner) ==
    IF inner.err # NilErr
    THEN [hasResp |-> FALSE, Header |-> NoHeaders, err |-> inner.err]
    ELSE [hasResp |-> TRUE, Header |-> removeCORSHeaders(inner.Header), err |-> NilErr]

(* ------------------------- request header heap ------------------------ *)

HeaderNames == { "Connection", "X-A" }

\* addresses of header maps and of value slices; 0 is "no slice" (key absent)
MapAddrs == 1..2
SliceAddrs == 1..5

EmptyMap == [n \in HeaderNames |-> 0]

EmptyHeap == [maps |-> [a \in MapAddrs |-> EmptyMap], slices |-> [a \in SliceAddrs |-> ""]]

\* values of the inbound Connection header ("" : header absent)
ConnValues == { "", "Upgrade", "keep-alive" }

\* the heap holding the inbound request's header map (map 1): the Connection
\* header as sent and one application header X-A: v
InboundHeap(conn) ==
    [maps   |-> [a \in MapAddrs |->
                    IF a = 1
                    THEN [n \in HeaderNames |->
                            IF n = "Connection" THEN (IF conn = "" THEN 0 ELSE 1) ELSE 2]
                    ELSE EmptyMap],
     slices |-> [a \in SliceAddrs |->
                    IF a = 1 THEN conn ELSE IF a = 2 THEN "v" ELSE ""]]

\* what a reader of the header map at address a sees: name -> value ("" absent)
HeaderView(hp, a) ==
    [n \in HeaderNames |->
        IF hp.maps[a][n] = 0 THEN "" ELSE hp.slices[hp.maps[a][n]]]

\* CloneHeader copying the map but not the value slices
CloneHeader_SharedSlices(hp, a) ==
    [heap |-> [hp EXCEPT !.maps[2] = hp.maps[a]], addr |-> 2]

\* utilnet.CloneHeader: a new map (map 2) whose keys point at new slices
\* (slice s is copied to slice s + 2) holding copies of the values
CloneHeader(hp, a) ==
    [heap |-> [maps   |-> [hp.maps EXCEPT ![2] =
                              [n \in HeaderNames |->
                                  IF hp.maps[a][n] = 0 THEN 0 ELSE hp.maps[a][n] + 2]],
               slices |-> [s \in SliceAddrs |->
                              IF s \in {3, 4} /\ (\E n \in HeaderNames : hp.maps[a][n] = s - 2)
                              THEN hp.slices[s - 2] ELSE hp.slices[s]]],
     addr |-> 2]

\* what code holding a request may do to its header X-A: Header.Set (a new
\* slice, slice 5), Header.Del, or a write into the existing value slice
Mutations == { "set", "del", "write" }

ApplyMutation(hp, a, m) ==
    CASE m = "set" ->
            [maps |-> [hp.maps EXCEPT ![a]["X-A"] = 5],
             slices |-> [hp.slices EXCEPT ![5] = "m"]]
      [] m = "del" ->
            [hp EXCEPT !.maps[a]["X-A"] = 0]
      [] m = "write" ->
            IF hp.maps[a]["X-A"] = 0 THEN hp
            ELSE [hp EXCEPT !.slices[hp.maps[a]["X-A"]] = "m"]
      [] OTHER -> hp

\* httpstream.IsUpgradeRequest: some Connection value contains "upgrade"
IsUpgradeRequest(hp, r) == HeaderView(hp, r.Header)["Connection"] = "Upgrade"

(* ------------------------------ handler ------------------------------- *)

\* the inner transport a handler may be constructed with; nil is <<>>
BaseTransport == << [type |-> "base", Scheme |-> "", Host |-> "", PathPrepend |-> <<>>] >>

NilTransport == <<>>

\* a transport chain is the sequence of its layers, outermost first; the
\* number of corsRemovingTransport layers is the number of times it was wrapped
Wraps(t) == Cardinality({ i \in 1..Len(t) : t[i].type = "cors" })

\* defaultProxyTransport trimming the base path as it is, without the trailing
\* slash carried over from the request path
defaultProxyTransport_NoSlash(hd, url, internalTransport) ==
    << [type |-> "cors", Scheme |-> "", Host |-> "", PathPrepend |-> <<>>],
       [type |-> "rewrite", Scheme |-> url.Scheme, Host |-> url.Host,
        PathPrepend |-> TrimSuffix(url.Path, hd.Location.Path)] >> \o internalTransport

\* UpgradeAwareHandler.defaultProxyTransport
defaultProxyTransport(hd, url, internalTransport) ==
    LET suffix == IF HasSuffix(url.Path, Slash) /\ ~HasSuffix(hd.Location.Path, Slash)
                  THEN hd.Location.Path \o Slash
                  ELSE hd.Location.Path
        pathPrepend == TrimSuffix(url.Path, suffix)
    IN  << [type |-> "cors", Scheme |-> "", Host |-> "", PathPrepend |-> <<>>],
           [type |-> "rewrite", Scheme |-> url.Scheme, Host |-> url.Host,
            PathPrepend |-> pathPrepend] >> \o internalTransport

\* DestLocation keeping the base location's own query string
DestLocation_BaseQuery(hd, r) ==
    IF ~HasSuffix(hd.Location.Path, Slash) /\ HasSuffix(r.URL.Path, Slash)
    THEN [hd.Location EXCEPT !.Path = @ \o Slash]
    ELSE hd.Location

\* DestLocation without the trailing slash carried over
DestLocation_NoSlash(hd, r) == [hd.Location EXCEPT !.RawQuery = r.URL.RawQuery]

\* ServeHTTP, lines 68-75: the per-request copy of h.Location with the
\* inbound query and the trailing slash carried over
DestLocation(hd, r) ==
    LET loc == [hd.Location EXCEPT !.RawQuery = r.URL.RawQuery]
    IN  IF ~HasSuffix(loc.Path, Slash) /\ HasSuffix(r.URL.Path, Slash)
        THEN [loc EXCEPT !.Path = @ \o Slash]
        ELSE loc

\* LocationAfterCopy when loc is h.Location itself and not a copy of it
LocationAfterCopy_Aliased(hd, r) == DestLocation(hd, r)

\* ServeHTTP, line 68: loc := *h.Location copies the URL value, so what lines
\* 69-75 assign to loc leaves the handler's own base location as it was
LocationAfterCopy(hd, r) == hd.Location

\* RedirectLocation without the query part
RedirectLocation_NoQuery(r) == r.URL.Path \o Slash

\* ServeHTTP, lines 82-86: the value of the Location header of the redirect
RedirectLocation(r) ==
    LET queryPart == IF Len(r.URL.RawQuery) > 0 THEN <<"?">> \o r.URL.RawQuery ELSE <<>>
    IN  r.URL.Path \o Slash \o queryPart

\* Route with the upgrade test moved behind the empty-path redirect
Route_UpgradeLast(hd, hp, r) ==
    IF hd.UpgradeRequired /\ ~IsUpgradeRequest(hp, r) THEN "badrequest"
    ELSE IF Len(DestLocation(hd, r).Path) = 0 THEN "redirect"
    ELSE IF IsUpgradeRequest(hp, r) THEN "upgrade"
    ELSE "proxy"

\* Route with the empty-path redirect moved ahead of the upgrade-required test
Route_RedirectFirst(hd, hp, r) ==
    IF IsUpgradeRequest(hp, r) THEN "upgrade"
    ELSE IF Len(DestLocation(hd, r).Path) = 0 THEN "redirect"
    ELSE IF hd.UpgradeRequired THEN "badrequest"
    ELSE "proxy"

\* ServeHTTP, lines 58-89: which branch serves the request
Route(hd, hp, r) ==
    IF IsUpgradeRequest(hp, r) THEN "upgrade"
    ELSE IF hd.UpgradeRequired THEN "badrequest"
    ELSE IF Len(DestLocation(hd, r).Path) = 0 THEN "redirect"
    ELSE "proxy"

\* ServeHTTP, line 91: does this request (re)build the transport chain
Rebuilds(hd) == hd.Transport = NilTransport \/ hd.WrapTransport

\* apierrors.NewBadRequest("Upgrade request required")
BadRequest == << "BadRequest" >>

\* Deferred without the recover()
Deferred_NoRecover(w, raised) == [w |-> w, propagated |-> raised]

\* ServeHTTP, lines 102-108: the deferred function, given whether a panic is
\* unwinding the call; recover() stops it
Deferred(w, raised) ==
    IF raised
    THEN [w |-> [w EXCEPT !.Connection = "close"], propagated |-> FALSE]
    ELSE [w |-> w, propagated |-> FALSE]

\* what the reverse-proxy engine may do with one request: answer from the
\* backend, panic while copying the response, or report an error
EngineOutcomes == { <<"ok">>, <<"panic">> } \cup Errors

\* httputil.ReverseProxy.ServeHTTP as ServeHTTP configures it (lines 110-121):
\* the engine either writes the backend's answer, panics, or calls
\* proxy.ErrorHandler, which is h.ErrorHandler
Engine(w, out) ==
    LET eh == ErrorHandler(w, out)
    IN  CASE out = <<"ok">> ->
                [w |-> [w EXCEPT !.Code = 200], responder |-> <<>>,
                 health |-> 0, raised |-> FALSE, err |-> NilErr]
          [] out = <<"panic">> ->
                [w |-> w, responder |-> <<>>,
                 health |-> 0, raised |-> TRUE, err |-> NilErr]
          [] OTHER ->
                [w |-> eh.w, responder |-> eh.responder,
                 health |-> eh.health, raised |-> eh.panicked, err |-> out]

NoURL == [Scheme |-> "", Host |-> "", Path |-> <<>>, RawQuery |-> <<>>]
NoReq == [URL |-> NoURL, Header |-> 0]

\* what the collaborators saw during one call
NoObs == [op |-> "none", relay |-> 0, engine |-> 0, built |-> 0, responder |-> <<>>,
          health |-> 0, raised |-> FALSE, propagated |-> FALSE, transport |-> NilTransport]

\* UpgradeAwareHandler.ServeHTTP on response sink FreshWriter: the handler, the
\* heap, the response sink, the proxied request and the collaborators' view
\* after the call.  The upgrade relay (the embedded handler's ServeHTTP) and
\* the responder are collaborators: the model counts the calls made to them
\* and records what this file's code itself writes to the response sink.
Dispatch(hd, hp, r, out) ==
    LET route == Route(hd, hp, r)
        obs0  == [NoObs EXCEPT !.op = "ServeHTTP"]
        loc   == DestLocation(hd, r)
        tr    == IF Rebuilds(hd) THEN defaultProxyTransport(hd, r.URL, hd.Transport)
                 ELSE hd.Transport
        cl    == CloneHeader(hp, r.Header)
        nr    == [URL |-> IF ~hd.UseRequestLocation THEN loc ELSE r.URL, Header |-> cl.addr]
        eng   == Engine(FreshWriter, out)
        def   == Deferred(eng.w, eng.raised)
    IN  CASE route = "upgrade" ->
                [h |-> hd, heap |-> hp, w |-> FreshWriter, newReq |-> NoReq, err |-> NilErr,
                 obs |-> [obs0 EXCEPT !.relay = 1]]
          [] route = "badrequest" ->
                [h |-> hd, heap |-> hp, w |-> FreshWriter, newReq |-> NoReq, err |-> NilErr,
                 obs |-> [obs0 EXCEPT !.responder = <<BadRequest>>]]
          [] route = "redirect" ->
                [h |-> [hd EXCEPT !.Location = LocationAfterCopy(hd, r)],
                 heap |-> hp, newReq |-> NoReq, err |-> NilErr,
                 w |-> [FreshWriter EXCEPT !.Location = RedirectLocation(r),
                                           !.Code = StatusMovedPermanently],
                 obs |-> obs0]
          [] OTHER ->
                [h |-> [hd EXCEPT !.Transport = tr, !.Location = LocationAfterCopy(hd, r)],
                 heap |-> cl.heap, w |-> def.w,
                 newReq |-> nr, err |-> eng.err,
                 obs |-> [obs0 EXCEPT !.engine = 1,
                                      !.built = IF Rebuilds(hd) THEN 1 ELSE 0,
                                      !.responder = eng.responder,
                                      !.health = eng.health,
                                      !.raised = eng.raised,
                                      !.propagated = def.propagated,
                                      !.transport = tr]]

(* ------------------------------- state -------------------------------- *)

VARIABLES
    h,          \* the handler: its configuration and its transport chain
    pc,         \* "idle": no call in progress; "done": a call has returned and
                \* its request, response sink and collaborators can be inspected
    req,        \* the inbound request of the call
    hdr0,       \* the inbound request's headers as they were received
    heap,       \* the header maps and value slices of the call's requests
    newReq,     \* the proxied request of the call (NoReq: none)
    w,          \* the response sink of the call
    errIn,      \* the error the Error Classifier was given in the call
    obs,        \* what the collaborators saw during the call
    rt,         \* the call's corsRemovingTransport.RoundTrip: inner result, result
    calls       \* the ServeHTTP calls running concurrently on the handler, each
                \* with its position in lines 91-121

vars == << h, pc, req, hdr0, heap, newReq, w, errIn, obs, rt, calls >>

\* the goroutines serving requests on the one handler
Callers == { 1, 2 }

\* a goroutine that is not in ServeHTTP
IdleCall == [pc |-> "idle", path |-> <<>>, rebuild |-> FALSE, own |-> NilTransport,
             handed |-> NilTransport]

BaseLocation(path) == [Scheme |-> "https", Host |-> "backend", Path |-> path, RawQuery |-> <<"b">>]

NoRT == [inner |-> [hasResp |-> FALSE, Header |-> NoHeaders, err |-> NilErr],
         out   |-> [hasResp |-> FALSE, Header |-> NoHeaders, err |-> NilErr]]

NoHdr == [n \in HeaderNames |-> ""]

\* NewUpgradeAwareHandler: any base path, any flags, with or without a transport.
\* The responder is required (constructor comment) and is never nil here.
Init ==
    /\ \E path \in BasePaths, wrap \in BOOLEAN, upg \in BOOLEAN, useLoc \in BOOLEAN,
          tr \in { NilTransport, BaseTransport } :
            h = [Location |-> BaseLocation(path), Transport |-> tr, WrapTransport |-> wrap,
                 UpgradeRequired |-> upg, UseRequestLocation |-> useLoc]
    /\ pc = "idle"
    /\ req = NoReq
    /\ hdr0 = NoHdr
    /\ heap = EmptyHeap
    /\ newReq = NoReq
    /\ w = FreshWriter
    /\ errIn = NilErr
    /\ obs = NoObs
    /\ rt = NoRT
    /\ calls = [i \in Callers |-> IdleCall]

\* one inbound request served by h.ServeHTTP(w, req) on a fresh response sink,
\* the reverse-proxy engine behaving in one of the ways of outs
Serve(outs) ==
    \E path \in ReqPaths, query \in Queries, conn \in ConnValues, out \in outs :
        LET hp0 == InboundHeap(conn)
            r   == [URL |-> [Scheme |-> "http", Host |-> "gateway", Path |-> path,
                             RawQuery |-> query],
                    Header |-> 1]
            d   == Dispatch(h, hp0, r, out)
        IN  /\ pc = "idle"
            /\ Route(h, hp0, r) = "proxy" /\ Rebuilds(h) => Wraps(h.Transport) < MaxWraps
            /\ Route(h, hp0, r) # "proxy" => out = <<"ok">>
            /\ pc' = "done"
            /\ h' = d.h
            /\ req' = r
            /\ hdr0' = HeaderView(hp0, 1)
            /\ heap' = d.heap
            /\ newReq' = d.newReq
            /\ w' = d.w
            /\ errIn' = d.err
            /\ obs' = d.obs
            /\ rt' = NoRT
            /\ UNCHANGED calls

\* a request served, whatever the engine does
ServeHTTP == Serve(EngineOutcomes)

\* a request served, the engine answering or panicking without reporting an error
ServeAnswered == Serve({ <<"ok">>, <<"panic">> })

\* whoever holds the proxied request (the engine, a transport, a later reader)
\* changes its headers
MutateProxiedHeader ==
    \E mut \in Mutations :
        /\ pc = "done"
        /\ newReq.Header # 0
        /\ heap' = ApplyMutation(heap, newReq.Header, mut)
        /\ UNCHANGED << h, pc, req, hdr0, newReq, w, errIn, obs, rt, calls >>

\* h.ErrorHandler(w, req, err) called with a fresh response sink
CallErrorHandler ==
    \E e \in Errors :
        LET eh == ErrorHandler(FreshWriter, e)
        IN  /\ pc = "idle"
            /\ pc' = "done"
            /\ errIn' = e
            /\ w' = eh.w
            /\ obs' = [NoObs EXCEPT !.op = "ErrorHandler", !.responder = eh.responder,
                                    !.health = eh.health, !.raised = eh.panicked,
                                    !.propagated = eh.panicked]
            /\ UNCHANGED << h, req, hdr0, heap, newReq, rt, calls >>

\* one round trip through a corsRemovingTransport
RoundTrip ==
    \E inner \in InnerResults :
        /\ pc = "idle"
        /\ pc' = "done"
        /\ rt' = [inner |-> inner, out |-> CorsRoundTrip(inner)]
        /\ obs' = [NoObs EXCEPT !.op = "RoundTrip"]
        /\ UNCHANGED << h, req, hdr0, heap, newReq, w, errIn, calls >>

\* the call is over: its request, response sink and observers are dropped; the
\* handler stays
Finish ==
    /\ pc = "done"
    /\ pc' = "idle"
    /\ req' = NoReq
    /\ hdr0' = NoHdr
    /\ heap' = EmptyHeap
    /\ newReq' = NoReq
    /\ w' = FreshWriter
    /\ errIn' = NilErr
    /\ obs' = NoObs
    /\ rt' = NoRT
    /\ UNCHANGED << h, calls >>

Next ==
    \/ ServeHTTP
    \/ CallErrorHandler
    \/ RoundTrip
    \/ Finish

Spec == Init /\ [][Next]_vars

\* the requests' header maps under changes made to the proxied request
NextHeaders ==
    \/ ServeAnswered
    \/ MutateProxiedHeader
    \/ Finish

SpecHeaders == Init /\ [][NextHeaders]_vars

(* ------------------- concurrent calls on one handler ------------------ *)

\* what a concurrent call leaves alone in the model: the objects of the
\* sequential call
seqVars == << pc, req, hdr0, heap, newReq, w, errIn, obs, rt >>

\* goroutine i enters ServeHTTP with a plain request that lines 58-89 pass on
\* to the proxy branch
Enter(i) ==
    \E path \in ReqPaths :
        LET r == [URL |-> [Scheme |-> "http", Host |-> "gateway", Path |-> path,
                           RawQuery |-> <<>>],
                  Header |-> 1]
        IN  /\ calls[i].pc = "idle"
            /\ Route(h, InboundHeap(""), r) = "proxy"
            /\ calls' = [calls EXCEPT ![i] = [IdleCall EXCEPT !.pc = "check", !.path = path]]
            /\ UNCHANGED << h, seqVars >>

\* line 91: goroutine i reads h.Transport and h.WrapTransport; when it does
\* not rebuild, the transport it found is the one it goes on with
CheckStep(i) ==
    /\ calls[i].pc = "check"
    /\ calls' = [calls EXCEPT ![i].rebuild = Rebuilds(h),
                              ![i].own = IF Rebuilds(h) THEN NilTransport ELSE h.Transport,
                              ![i].pc = IF Rebuilds(h) THEN "build" ELSE "handoff"]
    /\ UNCHANGED << h, seqVars >>

\* line 92: goroutine i wraps the h.Transport it reads now, with the path
\* prefix of its own request URL, and writes the result to h.Transport
BuildStep(i) ==
    LET url == [Scheme |-> "http", Host |-> "gateway", Path |-> calls[i].path,
                RawQuery |-> <<>>]
        tr  == defaultProxyTransport(h, url, h.Transport)
    IN  /\ calls[i].pc = "build"
        /\ Wraps(h.Transport) < MaxWraps
        /\ h' = [h EXCEPT !.Transport = tr]
        /\ calls' = [calls EXCEPT ![i].own = tr, ![i].pc = "handoff"]
        /\ UNCHANGED seqVars

\* line 111: goroutine i reads h.Transport again and hands it to its engine
HandoffStep(i) ==
    /\ calls[i].pc = "handoff"
    /\ calls' = [calls EXCEPT ![i].handed = h.Transport, ![i].pc = "done"]
    /\ UNCHANGED << h, seqVars >>

\* goroutine i returns from ServeHTTP
Leave(i) ==
    /\ calls[i].pc = "done"
    /\ calls' = [calls EXCEPT ![i] = IdleCall]
    /\ UNCHANGED << h, seqVars >>

NextConc ==
    \E i \in Callers :
        \/ Enter(i)
        \/ CheckStep(i)
        \/ BuildStep(i)
        \/ HandoffStep(i)
        \/ Leave(i)

SpecConc == Init /\ [][NextConc]_vars

(* ------------------------------ properties ---------------------------- *)

\* a ServeHTTP call has returned
Served == pc = "done" /\ obs.op = "ServeHTTP"

\* the inbound request of the call carried the upgrade signalling header
InboundUpgrade == hdr0["Connection"] = "Upgrade"

\* the Error Classifier ran in the call, on errIn
Classified == pc = "done" /\ errIn # NilErr

\* the base path plus "/" when the inbound path ends in "/" and the base path
\* does not
DestPath ==
    h.Location.Path \o
        (IF HasSuffix(req.URL.Path, <<"/">>) /\ ~HasSuffix(h.Location.Path, <<"/">>)
         THEN <<"/">> ELSE <<>>)

\* C1: a plain request on a handler that is not upgrade-required whose
\* destination path is empty is answered with a 301 whose Location is the
\* inbound path, "/", and "?" + query exactly when the query is non-empty;
\* no transport is built and the reverse-proxy engine is not invoked.
C1_EmptyPathRedirects ==
    (Served /\ ~InboundUpgrade /\ ~h.UpgradeRequired /\ DestPath = <<>>) =>
        /\ w.Code = 301
        /\ req.URL.RawQuery = <<>> => w.Location = req.URL.Path \o <<"/">>
        /\ req.URL.RawQuery # <<>> =>
                w.Location = req.URL.Path \o <<"/", "?">> \o req.URL.RawQuery
        /\ obs.built = 0
        /\ obs.engine = 0
        /\ newReq = NoReq

C1_Witness ==
    /\ Served /\ ~InboundUpgrade /\ ~h.UpgradeRequired /\ DestPath = <<>>
    /\ req.URL.RawQuery = <<"q">>
    /\ w.Location = <<"/", "a", "/", "?", "q">>

\* C2: a ServeHTTP call on an upgrade request delegates to the upgrade relay
\* exactly once and does nothing else: the responder is not called, nothing is
\* written to the response sink, no transport is built, the handler (its
\* transport chain included) is left as it was, no proxied request is made,
\* the panic guard does not act and the engine is not invoked.
C2_UpgradeDelegates ==
    [][ (pc = "idle" /\ pc' = "done" /\ obs'.op = "ServeHTTP" /\ hdr0'["Connection"] = "Upgrade") =>
            /\ obs'.relay = 1
            /\ obs'.responder = <<>>
            /\ w' = FreshWriter
            /\ obs'.built = 0
            /\ h' = h
            /\ newReq' = NoReq
            /\ ~obs'.raised
            /\ obs'.engine = 0 ]_vars

C2_Witness ==
    /\ Served /\ InboundUpgrade
    /\ obs.relay = 1
    /\ h.Location.Path = <<>> /\ req.URL.Path = <<"/", "a">>
    /\ ~h.UpgradeRequired

\* C3: a ServeHTTP call on a plain request on an upgrade-required handler calls
\* the responder exactly once, with the BadRequest error, and does nothing
\* else: no redirect is written, no transport is built, the handler is left as
\* it was and the engine is not invoked.
C3_UpgradeRequiredRejects ==
    [][ (pc = "idle" /\ pc' = "done" /\ obs'.op = "ServeHTTP" /\ hdr0'["Connection"] # "Upgrade"
         /\ h.UpgradeRequired) =>
            /\ obs'.responder = << <<"BadRequest">> >>
            /\ w' = FreshWriter
            /\ obs'.built = 0
            /\ h' = h
            /\ newReq' = NoReq
            /\ obs'.engine = 0
            /\ obs'.relay = 0 ]_vars

C3_Witness ==
    /\ Served /\ ~InboundUpgrade /\ h.UpgradeRequired
    /\ obs.responder = << <<"BadRequest">> >>
    /\ h.Location.Path = <<>> /\ req.URL.Path = <<"/", "a">>
    /\ h.Transport = NilTransport

\* C4: given a connection-refused error the Error Classifier triggers the
\* health check exactly once and still hands the error to the responder;
\* given any other error it triggers no health check.
C4_RefusedTriggersHealthCheck ==
    Classified =>
        /\ IsConnectionRefused(errIn) => (obs.health = 1 /\ obs.responder = <<errIn>>)
        /\ ~IsConnectionRefused(errIn) => obs.health = 0

C4_Witness ==
    /\ Classified /\ obs.op = "ErrorHandler"
    /\ errIn = <<"OpError", "ECONNREFUSED">>
    /\ obs.health = 1 /\ obs.responder = <<errIn>>

\* the error the classifier was given is an abort error whose root cause is a
\* cancellation or reads "client disconnected"
AbortOfDisconnect ==
    /\ ErrorsIs(errIn, "ErrAbortHandler")
    /\ Unwrap(errIn) # NilErr
    /\ \/ ErrorsIs(Unwrap(errIn), "Canceled")
       \/ ErrorContains(Unwrap(errIn), ClientDisconnectedText)

\* the error the classifier was given is an abort error whose root cause
\* contains the GOAWAY text
AbortOfGoAway ==
    /\ ErrorsIs(errIn, "ErrAbortHandler")
    /\ Unwrap(errIn) # NilErr
    /\ ErrorContains(Unwrap(errIn), GoAwayText)

\* C5: given an abort error whose root cause is a cancellation or "client
\* disconnected", the Error Classifier calls the responder zero times,
\* triggers no health check and sets no Connection header.
C5_DisconnectSuppressed ==
    (Classified /\ AbortOfDisconnect) =>
        /\ obs.responder = <<>>
        /\ obs.health = 0
        /\ w.Connection = ""

C5_Witness ==
    /\ Classified /\ obs.op = "ErrorHandler"
    /\ errIn = <<"AbortWrap", "ClientDisconnected">>
    /\ obs.responder = <<>>

\* C6 as stated: given an abort error whose root cause contains the GOAWAY
\* text, Connection: close is set and the responder is called exactly once;
\* for every other error the classifier itself never sets Connection.
C6_Original ==
    /\ (Classified /\ AbortOfGoAway) =>
            (w.Connection = "close" /\ Len(obs.responder) = 1)
    /\ (Classified /\ obs.op = "ErrorHandler" /\ ~AbortOfGoAway) => w.Connection = ""

\* C6 as amended: given an abort error whose root cause contains the GOAWAY
\* text and is neither a cancellation nor contains "client disconnected",
\* Connection: close is set and the responder is called exactly once; for
\* every other error the classifier itself never sets Connection.
C6_GoAwayClosesConnection ==
    /\ (Classified /\ AbortOfGoAway /\ ~AbortOfDisconnect) =>
            (w.Connection = "close" /\ Len(obs.responder) = 1)
    /\ (Classified /\ obs.op = "ErrorHandler" /\ ~(AbortOfGoAway /\ ~AbortOfDisconnect)) =>
            w.Connection = ""

C6_Witness ==
    /\ Classified /\ obs.op = "ErrorHandler"
    /\ errIn = <<"AbortWrap", "GOAWAY">>
    /\ w.Connection = "close"
    /\ obs.responder = << <<"GOAWAY">> >>

\* C7: a panic raised while the reverse-proxy engine serves the request, in the
\* response copy or in the Error Classifier it calls back, does not leave
\* ServeHTTP, and the response header Connection is "close".
C7_PanicContained ==
    (Served /\ obs.raised) => (~obs.propagated /\ w.Connection = "close")

C7_Witness ==
    /\ Served /\ obs.raised /\ obs.engine = 1
    /\ errIn = <<"ErrAbortHandler">>
    /\ w.Connection = "close"

\* C8 as stated: for every error given to the Error Classifier the responder
\* is called exactly once, except for an abort error of a cancellation or a
\* client disconnect, where it is called zero times; also for an abort error
\* without a wrapped root cause.
C8_ExactlyOneOutcome ==
    Classified =>
        /\ AbortOfDisconnect => Len(obs.responder) = 0
        /\ ~AbortOfDisconnect => (Len(obs.responder) = 1 /\ ~obs.raised)

\* C9: whatever is set, deleted or written in the proxied request's headers,
\* the inbound request's headers read as they were received; the two requests
\* hold different header maps.
C9_InboundHeadersUntouched ==
    (Served /\ newReq.Header # 0) =>
        /\ HeaderView(heap, req.Header) = hdr0
        /\ newReq.Header # req.Header

C9_Witness ==
    /\ Served /\ newReq.Header # 0
    /\ heap.maps[newReq.Header]["X-A"] = 4
    /\ heap.slices[4] = "m"
    /\ hdr0["X-A"] = "v"

\* C10: after a successful inner round trip the returned response has none of
\* the four Access-Control-Allow-* headers and every other header as the inner
\* response had it; after a failed one the same error and no response are
\* returned.
C10_CorsStripped ==
    (pc = "done" /\ obs.op = "RoundTrip") =>
        /\ rt.inner.err = NilErr =>
            /\ rt.out.hasResp /\ rt.out.err = NilErr
            /\ \A n \in CORSHeaders : rt.out.Header[n] = ""
            /\ \A n \in RespHeaderNames \ CORSHeaders : rt.out.Header[n] = rt.inner.Header[n]
        /\ rt.inner.err # NilErr =>
            /\ ~rt.out.hasResp
            /\ rt.out.err = rt.inner.err

C10_Witness ==
    /\ pc = "done" /\ obs.op = "RoundTrip"
    /\ \A n \in RespHeaderNames : rt.inner.Header[n] = "v"
    /\ rt.out.hasResp
    /\ rt.out.Header["Content-Type"] = "v"

\* C11: the path prefix of the transport built for a request is the request
\* path with the suffix S cut off when the request path ends with S, and the
\* whole request path otherwise, S being the base path plus "/" exactly when
\* the request path ends in "/" and the base path does not.
C11_PathPrepend ==
    (Served /\ obs.built = 1) =>
        LET P  == req.URL.Path
            S  == DestPath
            pp == obs.transport[2].PathPrepend
        IN  /\ obs.transport[2].type = "rewrite"
            /\ HasSuffix(P, S) => pp \o S = P
            /\ ~HasSuffix(P, S) => pp = P

C11_Witness ==
    /\ Served /\ obs.built = 1
    /\ req.URL.Path = <<"/", "p", "/", "a">>
    /\ h.Location.Path = <<"/", "a">>
    /\ obs.transport[2].PathPrepend = <<"/", "p">>

\* C14: the URL of the proxied request.  Without use-original-request-location
\* it has the base scheme and host, the inbound query string, and the base
\* path with "/" appended exactly when the inbound path ends in "/" and the
\* base path does not; with it, it is the inbound request's URL.
C14_ProxiedURL ==
    (Served /\ obs.engine = 1) =>
        /\ ~h.UseRequestLocation =>
            /\ newReq.URL.Scheme = "https"
            /\ newReq.URL.Host = "backend"
            /\ newReq.URL.RawQuery = req.URL.RawQuery
            /\ newReq.URL.Path = DestPath
        /\ h.UseRequestLocation => newReq.URL = req.URL

C14_Witness ==
    /\ Served /\ obs.engine = 1 /\ ~h.UseRequestLocation
    /\ h.Location.Path = <<"/", "a">>
    /\ req.URL.Path = <<"/", "a", "/">> /\ req.URL.RawQuery = <<"q">>
    /\ newReq.URL.Path = <<"/", "a", "/">> /\ newReq.URL.RawQuery = <<"q">>

\* C15: no step changes the handler's base location: scheme, host, path and
\* query stay as constructed, whichever branch serves the request; the inbound
\* query and the trailing slash go to the proxied request's URL only.
C15_BaseLocationKept ==
    [][ h'.Location = h.Location ]_vars

C15_Witness ==
    /\ Served /\ obs.engine = 1 /\ ~h.UseRequestLocation
    /\ h.Location = BaseLocation(<<"/", "a">>)
    /\ newReq.URL.Path = <<"/", "a", "/">>
    /\ newReq.URL.RawQuery = <<>>
    /\ newReq.URL # h.Location

\* the part of a Location value before its "?"
LocationPathPart(l) ==
    IF \E i \in 1..Len(l) : l[i] = "?"
    THEN SubSeq(l, 1, (CHOOSE i \in 1..Len(l) :
                            l[i] = "?" /\ \A j \in 1..(i-1) : l[j] # "?") - 1)
    ELSE l

\* C16: a 301 is answered only by a handler with an empty base path to a
\* request whose path does not end in "/", and the path part of its Location
\* is the inbound path plus one "/"; a request whose path ends in "/" is never
\* redirected.
C16_RedirectAddsOneSlash ==
    Served =>
        /\ w.Code = 301 =>
            /\ h.Location.Path = <<>>
            /\ ~HasSuffix(req.URL.Path, <<"/">>)
            /\ LocationPathPart(w.Location) = req.URL.Path \o <<"/">>
        /\ HasSuffix(req.URL.Path, <<"/">>) => (w.Code # 301 /\ w.Location = <<>>)

C16_Witness ==
    /\ Served /\ w.Code = 301
    /\ req.URL.Path = <<"/", "p", "/", "a">> /\ req.URL.RawQuery = <<>>
    /\ w.Location = <<"/", "p", "/", "a", "/">>

\* C17: the responder gets the very error the classifier was given when that
\* error is not an abort error, health check or not; it gets the unwrapped root
\* cause when an abort error is forwarded.
C17_ForwardedError ==
    Classified =>
        /\ ~ErrorsIs(errIn, "ErrAbortHandler") => obs.responder = <<errIn>>
        /\ (ErrorsIs(errIn, "ErrAbortHandler") /\ Len(obs.responder) > 0) =>
                obs.responder = << Unwrap(errIn) >>

C17_Witness ==
    /\ Classified /\ obs.op = "ErrorHandler"
    /\ errIn = <<"AbortWrap", "Other">>
    /\ obs.responder = << <<"Other">> >>

\* the number of path-rewrite layers of a transport chain
RewriteLayers(t) == Cardinality({ i \in 1..Len(t) : t[i].type = "rewrite" })

\* C12 as stated: over any sequence of proxied plain requests on one handler,
\* one that always wraps included, the first call that builds puts exactly one
\* CORS-stripping layer and one path-rewrite layer around the transport the
\* handler had, and every later call leaves that chain as it is.
C12_ChainBuiltOnce ==
    [][ (pc = "idle" /\ pc' = "done" /\ obs'.op = "ServeHTTP" /\ obs'.engine = 1) =>
            /\ (Wraps(h.Transport) = 0 /\ (h.Transport = NilTransport \/ h.WrapTransport)) =>
                    /\ Wraps(h'.Transport) = 1
                    /\ RewriteLayers(h'.Transport) = 1
                    /\ SubSeq(h'.Transport, 3, Len(h'.Transport)) = h.Transport
            /\ Wraps(h.Transport) >= 1 => h'.Transport = h.Transport ]_vars

\* C13 as stated: in every interleaving of two concurrent plain ServeHTTP calls
\* on one handler, the transport a call hands to its engine is the one that
\* call built, with the path prefix of its own request, or found at line 91.
C13_OwnTransportHandedOver ==
    \A i \in Callers :
        calls[i].pc = "done" =>
            /\ calls[i].handed = calls[i].own
            /\ calls[i].rebuild =>
                    calls[i].handed[2].PathPrepend =
                        TrimSuffix(calls[i].path,
                                   IF HasSuffix(calls[i].path, <<"/">>)
                                      /\ ~HasSuffix(h.Location.Path, <<"/">>)
                                   THEN h.Location.Path \o <<"/">>
                                   ELSE h.Location.Path)

====
